---- MODULE Spec2Model ----
(***************************************************************************)
(* Model of the orbit camera controller (src/src/utils/OrbitCamera.ts) and *)
(* of the viewer component that owns it                                    *)
(* (src/src/components/GaussianSplatViewer.tsx).                           *)
(*                                                                         *)
(* Numbers are fixed point:                                                *)
(*   lengths (distance, target, camera position)  hundredths of a unit     *)
(*   angles (yaw, pitch, pitch bounds)            tenths of a degree       *)
(*   mouseSpeed                                   tenths   (3  = 0.3)      *)
(*   wheelSpeed                                   hundredths (10 = 0.1)    *)
(*   panSpeed                                     thousandths (10 = 0.01)  *)
(*   sines, cosines, unit vectors                 thousandths              *)
(*   pointer / touch coordinates, wheel deltas    pixels                   *)
(* A product of two fixed-point numbers is rounded to the nearest          *)
(* representable value, as each floating-point operation of the code is.   *)
(***************************************************************************)
EXTENDS Integers, Sequences, FiniteSets, TLC

VARIABLES
    cam,             \* the OrbitCamera instance under study (fields of the class)
    ev,              \* the event or call most recently delivered
    nEvents,         \* number of events delivered so far
    mounted,         \* the viewer's effect has run and its cleanup has not
    apps,            \* the pc.Application objects created, one per mount
    appRef,          \* appRef.current: index into apps, 0 for null
    ctrls,           \* the OrbitCamera objects created, one per mount
    canvasListeners, \* listeners registered on the canvas element
    windowListeners, \* listeners registered on window
    isLoading,       \* useState(false)
    error,           \* useState<string | null>(null): null or the message parts
    assets           \* the pc.Asset objects created by loadGaussianSplatFile

ctrlVars == <<cam>>
loadVars == <<isLoading, error, assets>>
viewVars == <<mounted, apps, appRef, ctrls, canvasListeners, windowListeners,
              isLoading, error, assets>>
vars == <<cam, ev, nEvents, mounted, apps, appRef, ctrls, canvasListeners, windowListeners,
          isLoading, error, assets>>

---------------------------------------------------------------------------
(* Arithmetic of the fixed-point representation.                           *)

\* n / d rounded to the nearest integer (halves away from zero), d > 0
RoundDiv(n, d) ==
    IF n >= 0 THEN (2 * n + d) \div (2 * d)
              ELSE -((2 * (-n) + d) \div (2 * d))

\* product of a number and a factor given in thousandths
MulMilli(a, f) == RoundDiv(a * f, 1000)

MathMax(a, b) == IF a >= b THEN a ELSE b
MathMin(a, b) == IF a <= b THEN a ELSE b

RECURSIVE SqrtSearch(_, _, _)
SqrtSearch(n, lo, hi) ==
    IF lo >= hi THEN lo
    ELSE LET mid == (lo + hi + 1) \div 2
         IN  IF mid * mid <= n THEN SqrtSearch(n, mid, hi)
                               ELSE SqrtSearch(n, lo, mid - 1)

\* Math.sqrt on non-negative integers, rounded to the nearest integer
MathSqrt(n) ==
    LET r == SqrtSearch(n, 0, 46340)
    IN  IF n - r * r > r THEN r + 1 ELSE r

\* 1000 * sin(d degrees), d = 0..90
SinTable ==
    <<0, 17, 35, 52, 70, 87, 105, 122, 139, 156, 174, 191, 208, 225, 242,
      259, 276, 292, 309, 326, 342, 358, 375, 391, 407, 423, 438, 454, 469,
      485, 500, 515, 530, 545, 559, 574, 588, 602, 616, 629, 643, 656, 669,
      682, 695, 707, 719, 731, 743, 755, 766, 777, 788, 799, 809, 819, 829,
      839, 848, 857, 866, 875, 883, 891, 899, 906, 914, 921, 927, 934, 940,
      946, 951, 956, 961, 966, 970, 974, 978, 982, 985, 988, 990, 993, 995,
      996, 998, 999, 999, 1000, 1000>>

\* Math.sin(a * DEG_TO_RAD) in thousandths, a in tenths of a degree
MathSin(a) ==
    LET d == RoundDiv(a, 10) % 360
    IN  IF d <= 90  THEN SinTable[d + 1]
        ELSE IF d <= 180 THEN SinTable[180 - d + 1]
        ELSE IF d <= 270 THEN -SinTable[d - 180 + 1]
        ELSE -SinTable[360 - d + 1]

\* Math.cos(a * DEG_TO_RAD) in thousandths, a in tenths of a degree
MathCos(a) == MathSin(a + 900)

\* pc.Vec3.normalize(): unit vector in thousandths; a zero vector is left as is
Normalize(v) ==
    LET len == MathSqrt(v[1] * v[1] + v[2] * v[2] + v[3] * v[3])
    IN  IF len = 0 THEN v
        ELSE <<RoundDiv(v[1] * 1000, len), RoundDiv(v[2] * 1000, len),
               RoundDiv(v[3] * 1000, len)>>

---------------------------------------------------------------------------
(* Values of the TypeScript number type that are not finite, and optional  *)
(* fields.  A pitch bound is [finite, value]; an optional field of the     *)
(* options object is << >> (undefined) or <<v>>.                           *)

Finite(v) == [finite |-> TRUE, value |-> v]
NegInfinity == [finite |-> FALSE, value |-> -1]
PosInfinity == [finite |-> FALSE, value |-> 1]
isFinite(b) == b.finite

\* options.field ?? default
OrDefault(opt, default) == IF opt = << >> THEN default ELSE opt[1]

\* let lastTouchDistance: number | null = null
null == << >>

---------------------------------------------------------------------------
(* class OrbitCamera.  An instance is a record of the private fields, the  *)
(* closure variable lastTouchDistance of setupEventListeners, and the      *)
(* camera entity it drives: the arguments of the last setPosition and      *)
(* lookAt calls and the number of placements applied so far.               *)

updateCameraPosition(c) ==
    LET x == c.target[1] + MulMilli(MulMilli(c.distance, MathSin(c.yaw)), MathCos(c.pitch))
        y == c.target[2] + MulMilli(c.distance, MathSin(c.pitch))
        z == c.target[3] + MulMilli(MulMilli(c.distance, MathCos(c.yaw)), MathCos(c.pitch))
        rightX == MathCos(c.yaw)
        rightY == 0
        rightZ == -MathSin(c.yaw)
        forwardX == c.target[1] - x
        forwardY == c.target[2] - y
        forwardZ == c.target[3] - z
        upX == MulMilli(forwardY, rightZ) - MulMilli(forwardZ, rightY)
        upY == MulMilli(forwardZ, rightX) - MulMilli(forwardX, rightZ)
        upZ == MulMilli(forwardX, rightY) - MulMilli(forwardY, rightX)
    IN  [c EXCEPT !.camera = [position |-> <<x, y, z>>,
                              lookAtTarget |-> c.target,
                              up |-> Normalize(<<upX, upY, upZ>>),
                              placements |-> c.camera.placements + 1]]

\* mutant: the lower bound of the distance clamp is forgotten
ClampDistance_NoMin(c, d) == MathMin(c.maxDistance, d)

\* Math.max(this.minDistance, Math.min(this.maxDistance, d))
ClampDistance(c, d) == MathMax(c.minDistance, MathMin(c.maxDistance, d))

\* mutant: the pitch is clamped against each bound that is finite
ClampPitch_EachFinite(c, p) ==
    LET q == IF isFinite(c.maxPitch) THEN MathMin(c.maxPitch.value, p) ELSE p
    IN  IF isFinite(c.minPitch) THEN MathMax(c.minPitch.value, q) ELSE q

\* the pitch clamp of the rotate branches: applied only if both bounds are finite
ClampPitch(c, p) ==
    IF isFinite(c.minPitch) /\ isFinite(c.maxPitch)
    THEN MathMax(c.minPitch.value, MathMin(c.maxPitch.value, p))
    ELSE p

\* the entity handed to the constructor: nothing placed by the controller yet
NewEntity == [position |-> <<0, 0, 500>>, lookAtTarget |-> <<0, 0, 0>>,
              up |-> <<0, 1000, 0>>, placements |-> 0]

\* the field assignments of the constructor, lines 36-48
ConstructorFields(options) ==
        [target            |-> <<0, 0, 0>>,
         distance          |-> OrDefault(options.distance, 500),
         pitch             |-> OrDefault(options.pitch, 0),
         yaw               |-> OrDefault(options.yaw, 0),
         mouseSpeed        |-> OrDefault(options.mouseSpeed, 3),
         wheelSpeed        |-> OrDefault(options.wheelSpeed, 10),
         panSpeed          |-> OrDefault(options.panSpeed, 10),
         minDistance       |-> OrDefault(options.minDistance, 100),
         maxDistance       |-> OrDefault(options.maxDistance, 10000),
         minPitch          |-> OrDefault(options.minPitch, NegInfinity),
         maxPitch          |-> OrDefault(options.maxPitch, PosInfinity),
         isDragging        |-> FALSE,
         isPanning         |-> FALSE,
         lastMouseX        |-> 0,
         lastMouseY        |-> 0,
         lastTouchDistance |-> null,
         camera            |-> NewEntity]

\* mutant: the constructor does not compute the initial placement
Constructor_NoPlacement(options) == ConstructorFields(options)

Constructor(options) == updateCameraPosition(ConstructorFields(options))

mousedown(c, event) ==
    IF event.button = 0
    THEN LET c1 == IF event.shiftKey THEN [c EXCEPT !.isPanning = TRUE]
                                     ELSE [c EXCEPT !.isDragging = TRUE]
         IN  [c1 EXCEPT !.lastMouseX = event.clientX, !.lastMouseY = event.clientY]
    ELSE c

\* one term  basis * delta * panScale  of the pan, in hundredths
PanTerm(basis, delta, c) ==
    RoundDiv(basis * delta * RoundDiv(c.panSpeed * c.distance, 10), 100000)

\* mutant: the rotate step does not record the new pointer position
RotateStep_NoRecord(c, clientX, clientY) ==
    LET deltaX == clientX - c.lastMouseX
        deltaY == clientY - c.lastMouseY
    IN  updateCameraPosition(
            [c EXCEPT !.yaw = c.yaw - deltaX * c.mouseSpeed,
                      !.pitch = ClampPitch(c, c.pitch - deltaY * c.mouseSpeed)])

\* the rotate step shared by the mousemove and the single-touch branch
RotateStep(c, clientX, clientY) ==
    LET deltaX == clientX - c.lastMouseX
        deltaY == clientY - c.lastMouseY
    IN  updateCameraPosition(
            [c EXCEPT !.yaw = c.yaw - deltaX * c.mouseSpeed,
                      !.pitch = ClampPitch(c, c.pitch - deltaY * c.mouseSpeed),
                      !.lastMouseX = clientX,
                      !.lastMouseY = clientY])

\* the right vector of the pan branch: (cos yaw, 0, -sin yaw)
PanRight(c) == <<MathCos(c.yaw), 0, -MathSin(c.yaw)>>

\* mutant: sine and cosine of the pitch are exchanged in the pan up vector
PanUp_PitchSwapped(c) ==
    <<MulMilli(-MathSin(c.yaw), MathCos(c.pitch)),
      MathSin(c.pitch),
      MulMilli(-MathCos(c.yaw), MathCos(c.pitch))>>

\* the up vector of the pan branch:
\* (-sin yaw * sin pitch, cos pitch, -cos yaw * sin pitch)
PanUp(c) ==
    <<MulMilli(-MathSin(c.yaw), MathSin(c.pitch)),
      MathCos(c.pitch),
      MulMilli(-MathCos(c.yaw), MathSin(c.pitch))>>

mousemove(c, event) ==
    IF c.isPanning
    THEN LET deltaX == event.clientX - c.lastMouseX
             deltaY == event.clientY - c.lastMouseY
             rightX == PanRight(c)[1]
             rightZ == PanRight(c)[3]
             upX == PanUp(c)[1]
             upY == PanUp(c)[2]
             upZ == PanUp(c)[3]
         IN  updateCameraPosition(
                 [c EXCEPT !.target =
                               <<c.target[1] + PanTerm(rightX, deltaX, c) - PanTerm(upX, deltaY, c),
                                 c.target[2] - PanTerm(upY, deltaY, c),
                                 c.target[3] + PanTerm(rightZ, deltaX, c) - PanTerm(upZ, deltaY, c)>>,
                           !.lastMouseX = event.clientX,
                           !.lastMouseY = event.clientY])
    ELSE IF c.isDragging
    THEN RotateStep(c, event.clientX, event.clientY)
    ELSE c

mouseup(c, event) ==
    IF event.button = 0
    THEN [c EXCEPT !.isDragging = FALSE, !.isPanning = FALSE]
    ELSE c

mouseleave(c, event) == [c EXCEPT !.isDragging = FALSE, !.isPanning = FALSE]

\* mutant: the wheel delta is subtracted instead of added
wheel_Subtract(c, event) ==
    updateCameraPosition(
        [c EXCEPT !.distance = ClampDistance(c, c.distance - event.deltaY * c.wheelSpeed)])

wheel(c, event) ==
    updateCameraPosition(
        [c EXCEPT !.distance = ClampDistance(c, c.distance + event.deltaY * c.wheelSpeed)])

\* Math.sqrt(dx * dx + dy * dy) of the first two touches
TouchDistance(touches) ==
    LET dx == touches[1][1] - touches[2][1]
        dy == touches[1][2] - touches[2][2]
    IN  MathSqrt(dx * dx + dy * dy)

touchstart(c, event) ==
    IF Len(event.touches) = 1
    THEN [c EXCEPT !.isDragging = TRUE,
                   !.lastMouseX = event.touches[1][1],
                   !.lastMouseY = event.touches[1][2]]
    ELSE IF Len(event.touches) = 2
    THEN [c EXCEPT !.lastTouchDistance = <<TouchDistance(event.touches)>>]
    ELSE c

\* mutant: the single-touch branch does not ask for an active drag
touchmove_NoDragCheck(c, event) ==
    IF Len(event.touches) = 1
    THEN RotateStep(c, event.touches[1][1], event.touches[1][2])
    ELSE c

\* mutant: the pinch branch does not record the new pinch distance
touchmove_NoPinchRecord(c, event) ==
    IF Len(event.touches) = 1 /\ c.isDragging
    THEN RotateStep(c, event.touches[1][1], event.touches[1][2])
    ELSE IF Len(event.touches) = 2 /\ c.lastTouchDistance # null
    THEN LET newDistance == TouchDistance(event.touches)
             delta == newDistance - c.lastTouchDistance[1]
         IN  updateCameraPosition(
                 [c EXCEPT !.distance = ClampDistance(c, c.distance - delta)])
    ELSE c

touchmove(c, event) ==
    IF Len(event.touches) = 1 /\ c.isDragging
    THEN RotateStep(c, event.touches[1][1], event.touches[1][2])
    ELSE IF Len(event.touches) = 2 /\ c.lastTouchDistance # null
    THEN LET newDistance == TouchDistance(event.touches)
             delta == newDistance - c.lastTouchDistance[1]
         IN  updateCameraPosition(
                 [c EXCEPT !.distance = ClampDistance(c, c.distance - delta),
                           !.lastTouchDistance = <<newDistance>>])
    ELSE c

touchend(c, event) ==
    [c EXCEPT !.isDragging = FALSE, !.lastTouchDistance = null]

\* mutant: the target is replaced but the placement is not recomputed
setTarget_NoUpdate(c, target) == [c EXCEPT !.target = target]

setTarget(c, target) == updateCameraPosition([c EXCEPT !.target = target])

setDistance(c, distance) ==
    updateCameraPosition([c EXCEPT !.distance = ClampDistance(c, distance)])

\* mutant: reset clamps its fixed distance to the configured range
reset_Clamped(c) ==
    updateCameraPosition(
        [c EXCEPT !.pitch = 0, !.yaw = 0, !.distance = ClampDistance(c, 500)])

\* mutant: reset also ends the drag
reset_EndsDrag(c) ==
    updateCameraPosition(
        [c EXCEPT !.pitch = 0, !.yaw = 0, !.distance = 500,
                  !.isDragging = FALSE, !.isPanning = FALSE])

reset(c) ==
    updateCameraPosition([c EXCEPT !.pitch = 0, !.yaw = 0, !.distance = 500])

---------------------------------------------------------------------------
(* Inputs: the options objects the controller is constructed with and the  *)
(* events its host delivers.                                               *)

MaxEvents == 4

NoOptions ==
    [distance |-> << >>, pitch |-> << >>, yaw |-> << >>, mouseSpeed |-> << >>,
     wheelSpeed |-> << >>, panSpeed |-> << >>, minDistance |-> << >>,
     maxDistance |-> << >>, minPitch |-> << >>, maxPitch |-> << >>]

\* the options GaussianSplatViewer passes: distance sqrt(33), pitch -14, yaw 45
ViewerOptions ==
    [NoOptions EXCEPT !.distance = <<MathSqrt((4*4 + 1*1 + 4*4) * 10000)>>,
                      !.pitch = <<-140>>, !.yaw = <<450>>,
                      !.mouseSpeed = <<3>>, !.wheelSpeed = <<1>>, !.panSpeed = <<3>>,
                      !.minDistance = <<100>>, !.maxDistance = <<10000>>]

CtorOptions ==
    { NoOptions,
      ViewerOptions,
      [NoOptions EXCEPT !.distance = <<50>>, !.maxDistance = <<700>>],
      [NoOptions EXCEPT !.minDistance = <<600>>, !.maxDistance = <<1000>>],
      [NoOptions EXCEPT !.minDistance = <<800>>, !.maxDistance = <<300>>],
      [NoOptions EXCEPT !.minPitch = <<Finite(-200)>>, !.maxPitch = <<Finite(200)>>,
                        !.maxDistance = <<1000>>],
      [NoOptions EXCEPT !.maxPitch = <<Finite(200)>>, !.maxDistance = <<1000>>] }

Event(type) ==
    [type |-> type, button |-> 0, shiftKey |-> FALSE, clientX |-> 0, clientY |-> 0,
     deltaY |-> 0, touches |-> << >>, point |-> <<0, 0, 0>>, value |-> 0,
     file |-> << >>]

Points == {<<0, 0>>, <<100, 0>>, <<0, 100>>}

MouseDownEvents ==
    { [Event("mousedown") EXCEPT !.button = b, !.shiftKey = s] :
        b \in {0, 2}, s \in BOOLEAN }
MouseMoveEvents ==
    { [Event("mousemove") EXCEPT !.clientX = p[1], !.clientY = p[2]] : p \in Points }
MouseUpEvents == { [Event("mouseup") EXCEPT !.button = b] : b \in {0, 2} }
WheelEvents == { [Event("wheel") EXCEPT !.deltaY = d] : d \in {-50, 50} }

\* one finger; two fingers 100 and 150 pixels apart; three fingers
TouchLists ==
    { <<p>> : p \in Points } \cup
    { <<<<0, 0>>, <<60, 80>>>>, <<<<0, 0>>, <<90, 120>>>>,
      <<<<0, 0>>, <<100, 0>>, <<0, 100>>>> }
TouchStartEvents == { [Event("touchstart") EXCEPT !.touches = t] : t \in TouchLists }
TouchMoveEvents == { [Event("touchmove") EXCEPT !.touches = t] : t \in TouchLists }

TargetPoints == {<<0, 0, 0>>, <<100, -200, 300>>}
DistanceValues == {0, 500, 20000}

---------------------------------------------------------------------------
(* The controller on its own: constructed once, then driven by any         *)
(* sequence of at most MaxEvents events and calls.                         *)

\* the viewer before its effect has run: no application, nothing registered
ViewInit ==
    /\ mounted = FALSE
    /\ apps = << >>
    /\ appRef = 0
    /\ ctrls = << >>
    /\ canvasListeners = << >>
    /\ windowListeners = << >>
    /\ isLoading = FALSE
    /\ error = null
    /\ assets = << >>

Init ==
    /\ \E options \in CtorOptions : cam = Constructor(options)
    /\ ev = Event("new")
    /\ nEvents = 0
    /\ ViewInit

Deliver(event, c) ==
    /\ nEvents < MaxEvents
    /\ cam' = c
    /\ ev' = event
    /\ nEvents' = nEvents + 1
    /\ UNCHANGED viewVars

MouseDown == \E event \in MouseDownEvents : Deliver(event, mousedown(cam, event))
MouseMove == \E event \in MouseMoveEvents : Deliver(event, mousemove(cam, event))
MouseUp == \E event \in MouseUpEvents : Deliver(event, mouseup(cam, event))
MouseLeave == Deliver(Event("mouseleave"), mouseleave(cam, Event("mouseleave")))
Wheel == \E event \in WheelEvents : Deliver(event, wheel(cam, event))
TouchStart == \E event \in TouchStartEvents : Deliver(event, touchstart(cam, event))
TouchMove == \E event \in TouchMoveEvents : Deliver(event, touchmove(cam, event))
TouchEnd == Deliver(Event("touchend"), touchend(cam, Event("touchend")))
SetTarget ==
    \E t \in TargetPoints :
        Deliver([Event("setTarget") EXCEPT !.point = t], setTarget(cam, t))
SetDistance ==
    \E d \in DistanceValues :
        Deliver([Event("setDistance") EXCEPT !.value = d], setDistance(cam, d))
Reset == Deliver(Event("reset"), reset(cam))

Next ==
    \/ MouseDown \/ MouseMove \/ MouseUp \/ MouseLeave \/ Wheel
    \/ TouchStart \/ TouchMove \/ TouchEnd
    \/ SetTarget \/ SetDistance \/ Reset

Spec == Init /\ [][Next]_vars

---------------------------------------------------------------------------
(* The viewer component: its effect creates an application and a           *)
(* controller on the canvas, its cleanup destroys the application.  The    *)
(* canvas element is the same across mounts (the effect re-run on the      *)
(* rendered element).  A listener is [type, closure]; a closure is the     *)
(* function object created at a source line in one activation.             *)

MaxMounts == 2
MaxViewEvents == 3

Closure(site, owner) == [site |-> site, owner |-> owner]

\* target.addEventListener(type, closure)
addEventListener(listeners, type, closure) ==
    IF \E k \in DOMAIN listeners : listeners[k] = [type |-> type, closure |-> closure]
    THEN listeners
    ELSE Append(listeners, [type |-> type, closure |-> closure])

\* target.removeEventListener(type, closure): removes that very function only
removeEventListener(listeners, type, closure) ==
    SelectSeq(listeners, LAMBDA l : ~(l.type = type /\ l.closure = closure))

CanvasEventTypes ==
    <<"mousedown", "mousemove", "mouseup", "mouseleave", "wheel",
      "touchstart", "touchmove", "touchend">>

\* the eight canvas.addEventListener calls made by the controller numbered owner
setupEventListeners(listeners, owner) ==
    listeners \o [k \in DOMAIN CanvasEventTypes |->
                    [type |-> CanvasEventTypes[k],
                     closure |-> Closure(CanvasEventTypes[k], owner)]]

\* the listener of the controller for one event type
Handle(c, event) ==
    CASE event.type = "mousedown"  -> mousedown(c, event)
      [] event.type = "mousemove"  -> mousemove(c, event)
      [] event.type = "mouseup"    -> mouseup(c, event)
      [] event.type = "mouseleave" -> mouseleave(c, event)
      [] event.type = "wheel"      -> wheel(c, event)
      [] event.type = "touchstart" -> touchstart(c, event)
      [] event.type = "touchmove"  -> touchmove(c, event)
      [] event.type = "touchend"   -> touchend(c, event)

\* the input events delivered to the canvas of the viewer: one of each kind
CanvasEvents ==
    { e \in MouseDownEvents : e.button = 0 }
    \cup { e \in MouseMoveEvents : e.clientX = 100 }
    \cup { e \in MouseUpEvents : e.button = 0 }
    \cup { e \in WheelEvents : e.deltaY > 0 }
    \cup { e \in TouchStartEvents : e.touches \in {<<<<0, 0>>>>, <<<<0, 0>>, <<60, 80>>>>} }
    \cup { e \in TouchMoveEvents : e.touches \in {<<<<0, 100>>>>, <<<<0, 0>>, <<90, 120>>>>} }
    \cup {Event("mouseleave"), Event("touchend")}

InitView ==
    /\ cam = Constructor(ViewerOptions)
    /\ ev = Event("new")
    /\ nEvents = 0
    /\ ViewInit

\* useEffect body: new pc.Application, resize listener, new OrbitCamera
\* (canvasRef.current is set whenever the effect runs, so line 14 never returns)
Mount ==
    /\ ~mounted
    /\ Len(apps) < MaxMounts
    /\ LET id == Len(apps) + 1
       IN  /\ apps' = Append(apps, [destroyed |-> FALSE, resizeCalls |-> 0,
                                    callsAfterDestroy |-> 0, gsplats |-> 0])
           /\ appRef' = id
           /\ windowListeners' = addEventListener(windowListeners, "resize", Closure("effect:31", id))
           /\ ctrls' = Append(ctrls, Constructor(ViewerOptions))
           /\ canvasListeners' = setupEventListeners(canvasListeners, id)
    /\ mounted' = TRUE
    /\ ev' = Event("mount")
    /\ UNCHANGED <<cam, nEvents, loadVars>>

\* the cleanup the effect returns: removeEventListener with a new arrow
\* function, then app.destroy()
Cleanup ==
    /\ mounted
    /\ LET id == Len(apps)
       IN  /\ windowListeners' =
                  removeEventListener(windowListeners, "resize", Closure("cleanup:68", id))
           /\ apps' = [apps EXCEPT ![id].destroyed = TRUE]
    /\ mounted' = FALSE
    /\ ev' = Event("cleanup")
    /\ UNCHANGED <<cam, nEvents, appRef, ctrls, canvasListeners, loadVars>>

\* the browser dispatches an input event on the canvas: every listener
\* registered for its type runs
CanvasEvent ==
    /\ nEvents < MaxViewEvents
    /\ \E event \in CanvasEvents :
         LET hit(i) == \E k \in DOMAIN canvasListeners :
                          canvasListeners[k] =
                              [type |-> event.type, closure |-> Closure(event.type, i)]
         IN  /\ ctrls' = [i \in DOMAIN ctrls |->
                            IF hit(i) THEN Handle(ctrls[i], event) ELSE ctrls[i]]
             /\ apps' = [i \in DOMAIN apps |->
                            IF hit(i) /\ apps[i].destroyed
                            THEN [apps[i] EXCEPT !.callsAfterDestroy = @ + 1]
                            ELSE apps[i]]
             /\ ev' = event
    /\ nEvents' = nEvents + 1
    /\ UNCHANGED <<cam, mounted, appRef, canvasListeners, windowListeners, loadVars>>

\* the browser dispatches resize on window: every resize listener calls
\* resizeCanvas() on the application it closed over
WindowResize ==
    /\ nEvents < MaxViewEvents
    /\ apps' = [i \in DOMAIN apps |->
                  IF \E k \in DOMAIN windowListeners :
                        windowListeners[k].type = "resize"
                        /\ windowListeners[k].closure.owner = i
                  THEN [apps[i] EXCEPT !.resizeCalls = @ + 1]
                  ELSE apps[i]]
    /\ ev' = Event("resize")
    /\ nEvents' = nEvents + 1
    /\ UNCHANGED <<cam, mounted, appRef, ctrls, canvasListeners, windowListeners,
                   loadVars>>

(* File loading.  A file name is a sequence of one-character strings.      *)

UpperCase ==
    <<"A", "B", "C", "D", "E", "F", "G", "H", "I", "J", "K", "L", "M",
      "N", "O", "P", "Q", "R", "S", "T", "U", "V", "W", "X", "Y", "Z">>
LowerCase ==
    <<"a", "b", "c", "d", "e", "f", "g", "h", "i", "j", "k", "l", "m",
      "n", "o", "p", "q", "r", "s", "t", "u", "v", "w", "x", "y", "z">>

\* String.prototype.toLowerCase
toLowerCase(str) ==
    [i \in DOMAIN str |->
        IF \E k \in DOMAIN UpperCase : UpperCase[k] = str[i]
        THEN LowerCase[CHOOSE k \in DOMAIN UpperCase : UpperCase[k] = str[i]]
        ELSE str[i]]

\* filename.split('.').pop(): the text after the last dot, the whole name if
\* it has no dot
SplitPop(filename) ==
    LET dots == { i \in DOMAIN filename : filename[i] = "." }
    IN  IF dots = {} THEN filename
        ELSE LET last == CHOOSE i \in dots : \A j \in dots : j <= i
             IN  SubSeq(filename, last + 1, Len(filename))

\* ['ply', 'sog', 'splat']
SupportedFormats ==
    { <<"p", "l", "y">>, <<"s", "o", "g">>, <<"s", "p", "l", "a", "t">> }

\* lines 83-86: the extension passes the format validation
Validate(filename) ==
    LET extension == toLowerCase(SplitPop(filename))
    IN  extension # << >> /\ extension \in SupportedFormats

\* the files a user picks: a.ply, a.PLY, a.sog, a.splat, a.txt, a.ply.bak,
\* "a." and a file named ply
FileNames ==
    { <<"a", ".", "p", "l", "y">>, <<"a", ".", "P", "L", "Y">>,
      <<"a", ".", "s", "o", "g">>, <<"a", ".", "s", "p", "l", "a", "t">>,
      <<"a", ".", "t", "x", "t">>,
      <<"a", ".", "p", "l", "y", ".", "b", "a", "k">>,
      <<"a", ".">>, <<"p", "l", "y">> }

\* handleFileSelect with a file chosen, and the synchronous body of
\* loadGaussianSplatFile (it awaits nothing)
FileSelect ==
    /\ mounted
    /\ nEvents < MaxViewEvents
    /\ \E filename \in FileNames :
         /\ ev' = [Event("change") EXCEPT !.file = filename]
         /\ IF appRef = 0
            THEN UNCHANGED loadVars
            ELSE IF ~Validate(filename)
            THEN /\ error' = <<"Unsupported file format", toLowerCase(SplitPop(filename))>>
                 /\ isLoading' = FALSE
                 /\ assets' = assets
            ELSE IF apps[appRef].destroyed
            THEN /\ error' = <<"Error">>
                 /\ isLoading' = FALSE
                 /\ assets' = assets
            ELSE /\ error' = null
                 /\ isLoading' = TRUE
                 /\ assets' = Append(assets, [filename |-> filename, app |-> appRef,
                                              state |-> "loading"])
    /\ nEvents' = nEvents + 1
    /\ UNCHANGED <<cam, mounted, apps, appRef, ctrls, canvasListeners, windowListeners>>

\* the 'load' handler of an asset: the entity is created and added, or the
\* engine throws and the catch reports it
AssetLoaded ==
    \E k \in DOMAIN assets : \E throws \in BOOLEAN :
        /\ assets[k].state = "loading"
        /\ assets' = [assets EXCEPT ![k].state = "loaded"]
        /\ IF throws
           THEN /\ error' = <<"Failed to create entity">>
                /\ apps' = apps
           ELSE /\ error' = error
                /\ apps' = [apps EXCEPT ![assets[k].app].gsplats = @ + 1]
        /\ isLoading' = FALSE
        /\ ev' = [Event("load") EXCEPT !.file = assets[k].filename]
        /\ UNCHANGED <<cam, nEvents, mounted, appRef, ctrls, canvasListeners,
                       windowListeners>>

\* the 'error' handler of an asset
AssetError ==
    \E k \in DOMAIN assets :
        /\ assets[k].state = "loading"
        /\ assets' = [assets EXCEPT ![k].state = "failed"]
        /\ error' = <<"Failed to load file">>
        /\ isLoading' = FALSE
        /\ ev' = [Event("error") EXCEPT !.file = assets[k].filename]
        /\ UNCHANGED <<cam, nEvents, mounted, apps, appRef, ctrls, canvasListeners,
                       windowListeners>>

NextView ==
    \/ Mount \/ Cleanup \/ CanvasEvent \/ WindowResize
    \/ FileSelect \/ AssetLoaded \/ AssetError

SpecView == InitView /\ [][NextView]_vars

---------------------------------------------------------------------------
(* Properties of the controller.                                           *)

\* the branch a mousemove takes: the drag mode the two flags amount to
Mode(c) ==
    IF c.isPanning THEN "panning" ELSE IF c.isDragging THEN "rotating" ELSE "idle"

Orbit(c) == <<c.target, c.distance, c.yaw, c.pitch>>

\* C1: minDistance <= distance <= maxDistance in every state of the controller,
\* from construction on and after every event, call and reset.
C1_DistanceWithinBounds ==
    cam.minDistance <= cam.distance /\ cam.distance <= cam.maxDistance

\* C2: after a release of the primary button, a pointer leave or a touch end
\* neither rotating nor panning is active.
C2_ReleaseClearsMode ==
    (\/ ev.type = "mouseup" /\ ev.button = 0
     \/ ev.type = "mouseleave"
     \/ ev.type = "touchend")
    => Mode(cam) = "idle"

\* C3: after a press of the primary button the next pointer move pans if Shift
\* was held at the press and rotates if it was not, whatever the state before.
C3_PressSelectsMode ==
    (ev.type = "mousedown" /\ ev.button = 0)
    => Mode(cam) = (IF ev.shiftKey THEN "panning" ELSE "rotating")

\* a step that delivers a move taking a rotate branch
RotateStepTaken ==
    /\ nEvents' = nEvents + 1
    /\ \/ ev'.type = "mousemove" /\ ~cam.isPanning /\ cam.isDragging
       \/ ev'.type = "touchmove" /\ Len(ev'.touches) = 1 /\ cam.isDragging

MovedToY == IF ev'.type = "mousemove" THEN ev'.clientY ELSE ev'.touches[1][2]

\* C5: a rotate step (mouse or single touch) leaves the pitch within
\* [minPitch, maxPitch] if both bounds are finite, and otherwise sets it to
\* exactly the previous pitch minus dy * mouseSpeed.
C5_PitchClamp ==
    [][RotateStepTaken =>
         IF isFinite(cam.minPitch) /\ isFinite(cam.maxPitch)
         THEN cam.minPitch.value <= cam'.pitch /\ cam'.pitch <= cam.maxPitch.value
         ELSE cam'.pitch = cam.pitch - (MovedToY - cam.lastMouseY) * cam.mouseSpeed]_vars

\* C5 witness: a mouse rotate step has stopped the pitch at the finite lower bound
C5_Witness ==
    /\ ev.type = "mousemove" /\ Mode(cam) = "rotating"
    /\ isFinite(cam.minPitch) /\ isFinite(cam.maxPitch)
    /\ cam.pitch = cam.minPitch.value

\* C6: at rest the position, look-at target and up vector last applied to the
\* camera are the ones that follow from the current target, distance, yaw, pitch.
C6_PlacementCurrent ==
    LET fresh == updateCameraPosition(cam).camera
    IN  /\ cam.camera.position = fresh.position
        /\ cam.camera.lookAtTarget = fresh.lookAtTarget
        /\ cam.camera.up = fresh.up

\* C6 witness: a call has replaced the target and the camera looks at the new one
C6_Witness ==
    /\ ev.type = "setTarget" /\ ev.point # <<0, 0, 0>>
    /\ cam.target = ev.point /\ cam.camera.lookAtTarget = ev.point

\* a step that delivers a move matching no expected pattern
UnexpectedMove ==
    /\ nEvents' = nEvents + 1
    /\ \/ ev'.type = "mousemove" /\ Mode(cam) = "idle"
       \/ ev'.type = "touchmove" /\ Len(ev'.touches) = 1 /\ ~cam.isDragging
       \/ ev'.type = "touchmove" /\ Len(ev'.touches) = 2 /\ cam.lastTouchDistance = null

\* C7: a pointer move while idle, a single-touch move without an active drag and
\* a two-touch move without a recorded pinch distance change neither target,
\* distance, yaw, pitch nor the camera, and apply no placement.
C7_UnexpectedMoveIsNoOp ==
    [][UnexpectedMove => Orbit(cam') = Orbit(cam) /\ cam'.camera = cam.camera]_vars

\* C7 witness: a single-touch move arrived with no drag active and placed nothing
C7_Witness ==
    /\ ev.type = "touchmove" /\ Len(ev.touches) = 1 /\ ~cam.isDragging
    /\ cam.camera.placements = 1

\* C8: after reset() pitch = 0, yaw = 0 and distance = 5, whatever the state and
\* the configuration were.
C8_ResetValues ==
    ev.type = "reset" => cam.pitch = 0 /\ cam.yaw = 0 /\ cam.distance = 500

\* C8 witness: reset() ran under a configuration whose minDistance exceeds 5
C8_Witness == ev.type = "reset" /\ cam.minDistance > 500

\* the last event was a wheel event, a pinch step or a setDistance call
DistanceStepDone ==
    \/ ev.type = "wheel"
    \/ ev.type = "setDistance"
    \/ ev.type = "touchmove" /\ Len(ev.touches) = 2 /\ cam.lastTouchDistance # null

\* C9: with minDistance <= maxDistance, after each wheel event, pinch step and
\* setDistance call the distance lies within [minDistance, maxDistance].
C9_ZoomWithinBounds ==
    (cam.minDistance <= cam.maxDistance /\ DistanceStepDone)
    => cam.minDistance <= cam.distance /\ cam.distance <= cam.maxDistance

\* C9 witness: a wheel event under ordered bounds has stopped the distance at the minimum
C9_Witness ==
    /\ ev.type = "wheel" /\ ev.deltaY < 0
    /\ cam.minDistance < cam.maxDistance /\ cam.distance = cam.minDistance

\* C10: rotating and panning are never both active.
C10_OneModeAtATime == ~(cam.isDragging /\ cam.isPanning)

\* C4: once the cleanup of a mount has run and its application is destroyed, no
\* listener of that mount's controller is registered on the canvas.
C4_ListenersRemovedAtCleanup ==
    \A k \in DOMAIN canvasListeners :
        ~apps[canvasListeners[k].closure.owner].destroyed

\* a step that delivers a pointer move while the mode is rotating
RotateMoveTaken ==
    nEvents' = nEvents + 1 /\ ev'.type = "mousemove" /\ Mode(cam) = "rotating"

\* C11: a pointer move in rotating mode sets yaw to yaw - dx * mouseSpeed and
\* pitch to pitch - dy * mouseSpeed (clamped if both pitch bounds are finite),
\* dx and dy measured from the last recorded pointer position, and records the
\* new position; so yaw + lastMouseX * mouseSpeed does not change during a drag
\* and the total yaw change does not depend on how the drag is split.
C11_RotateMove ==
    [][RotateMoveTaken =>
         LET dx == ev'.clientX - cam.lastMouseX
             dy == ev'.clientY - cam.lastMouseY
             p  == cam.pitch - dy * cam.mouseSpeed
         IN  /\ cam'.yaw = cam.yaw - dx * cam.mouseSpeed
             /\ cam'.pitch =
                    IF isFinite(cam.minPitch) /\ isFinite(cam.maxPitch)
                    THEN (IF p < cam.minPitch.value THEN cam.minPitch.value
                          ELSE IF p > cam.maxPitch.value THEN cam.maxPitch.value
                          ELSE p)
                    ELSE p
             /\ cam'.lastMouseX = ev'.clientX
             /\ cam'.lastMouseY = ev'.clientY
             /\ cam'.yaw + cam'.lastMouseX * cam.mouseSpeed
                    = cam.yaw + cam.lastMouseX * cam.mouseSpeed]_vars

\* C11 witness: a rotate move of dx = 100 at mouseSpeed 0.3 has lowered yaw from 0 to -30
C11_Witness ==
    /\ ev.type = "mousemove" /\ ev.clientX = 100 /\ Mode(cam) = "rotating"
    /\ cam.mouseSpeed = 3 /\ cam.yaw = -300 /\ cam.lastMouseX = 100

\* clamp(v, lo, hi) as the claims use it: the larger of lo and min(hi, v)
Clamp(v, lo, hi) ==
    LET m == IF v < hi THEN v ELSE hi
    IN  IF m > lo THEN m ELSE lo

\* the separation of the two touches of a list (the inputs have whole separations)
Separation(touches) ==
    CHOOSE r \in 0..1000 :
        r * r = (touches[1][1] - touches[2][1]) * (touches[1][1] - touches[2][1])
              + (touches[1][2] - touches[2][2]) * (touches[1][2] - touches[2][2])

\* a step that delivers a two-touch move while a pinch distance is recorded
PinchStepTaken ==
    /\ nEvents' = nEvents + 1
    /\ ev'.type = "touchmove" /\ Len(ev'.touches) = 2 /\ cam.lastTouchDistance # null

\* C12: a two-touch move with a recorded pinch distance sets distance to
\* clamp(distance - (current - last) * 0.01, minDistance, maxDistance) and
\* records the current separation as the last pinch distance.
C12_PinchStep ==
    [][PinchStepTaken =>
         LET current == Separation(ev'.touches)
         IN  /\ cam'.distance =
                    Clamp(cam.distance - (current - cam.lastTouchDistance[1]),
                          cam.minDistance, cam.maxDistance)
             /\ cam'.lastTouchDistance = <<current>>]_vars

\* C12 witness: one pinch step from separation 100 to 150 has lowered distance 5 to 4.5
C12_Witness ==
    /\ ev.type = "touchmove" /\ Len(ev.touches) = 2
    /\ cam.lastTouchDistance = <<150>>
    /\ cam.distance = 450 /\ cam.camera.placements = 2

\* C13: a wheel event sets distance to
\* clamp(distance + deltaY * wheelSpeed, minDistance, maxDistance), whatever
\* the drag mode is.
C13_WheelStep ==
    [][(nEvents' = nEvents + 1 /\ ev'.type = "wheel") =>
         cam'.distance = Clamp(cam.distance + ev'.deltaY * cam.wheelSpeed,
                               cam.minDistance, cam.maxDistance)]_vars

\* C13 witness: deltaY = 50 at wheelSpeed 0.1 during a drag, as the second event
\* on a controller constructed with the defaults, has taken distance 5 to 10
C13_Witness ==
    /\ ev.type = "wheel" /\ ev.deltaY = 50 /\ cam.wheelSpeed = 10
    /\ Mode(cam) # "idle" /\ nEvents = 2
    /\ cam.maxDistance = 10000 /\ cam.distance = 1000

\* a step that delivers a pointer move in panning mode at yaw = 0, pitch = 0
LevelPanTaken ==
    /\ nEvents' = nEvents + 1
    /\ ev'.type = "mousemove" /\ cam.isPanning
    /\ cam.yaw = 0 /\ cam.pitch = 0

\* C14: a pan step at yaw = 0, pitch = 0 raises target.x by
\* dx * panSpeed * distance, lowers target.y by dy * panSpeed * distance and
\* leaves target.z unchanged.
C14_LevelPan ==
    [][LevelPanTaken =>
         LET dx == ev'.clientX - cam.lastMouseX
             dy == ev'.clientY - cam.lastMouseY
         IN  cam'.target =
                 <<cam.target[1] + RoundDiv(dx * cam.panSpeed * cam.distance, 1000),
                   cam.target[2] - RoundDiv(dy * cam.panSpeed * cam.distance, 1000),
                   cam.target[3]>>]_vars

\* C14 witness: a pan of dy = 100 at panSpeed 0.01, distance 5, yaw = pitch = 0
\* has moved the target from the origin to (0, -5, 0)
C14_Witness ==
    /\ ev.type = "mousemove" /\ ev.clientY = 100 /\ cam.isPanning
    /\ cam.yaw = 0 /\ cam.pitch = 0 /\ cam.panSpeed = 10 /\ cam.distance = 500
    /\ cam.target = <<0, -500, 0>>

\* C15: construction applies the initial placement before any event: exactly
\* one placement has been applied, and constructed with distance 5, pitch 0,
\* yaw 0 the camera is at (0, 0, 5) and looks at (0, 0, 0).
C15_InitialPlacement ==
    nEvents = 0 =>
        /\ cam.camera.placements = 1
        /\ cam.camera.lookAtTarget = <<0, 0, 0>>
        /\ (cam.distance = 500 /\ cam.pitch = 0 /\ cam.yaw = 0)
               => cam.camera.position = <<0, 0, 500>>

\* C15 witness: a controller just constructed with the defaults, placed at (0, 0, 5)
C15_Witness ==
    /\ nEvents = 0 /\ ev.type = "new"
    /\ cam.distance = 500 /\ cam.pitch = 0 /\ cam.yaw = 0
    /\ cam.camera.placements = 1 /\ cam.camera.position = <<0, 0, 500>>

Dot(u, v) == u[1] * v[1] + u[2] * v[2] + u[3] * v[3]

\* C17: for distance > 0 the up vector passed to lookAt points the way of the
\* pan up vector (-sin yaw sin pitch, cos pitch, -cos yaw sin pitch) of the same
\* yaw and pitch; at yaw = 0, pitch = 0 it is world up (0, 1, 0).
C17_UpMatchesPanUp ==
    cam.distance > 0 =>
        /\ Dot(cam.camera.up, PanUp(cam)) > 0
        /\ (cam.yaw = 0 /\ cam.pitch = 0) => cam.camera.up = <<0, 1000, 0>>

\* the up vector passed to lookAt is the opposite of the pan up vector
C17_UpOpposesPanUp ==
    cam.distance > 0 =>
        /\ Dot(cam.camera.up, PanUp(cam)) < 0
        /\ (cam.yaw = 0 /\ cam.pitch = 0) => cam.camera.up = <<0, -1000, 0>>

\* what the step just taken delivered
Delivered(type) == nEvents' = nEvents + 1 /\ ev'.type = type

Flags(c) == <<c.isDragging, c.isPanning>>

\* C19: each event changes only its own part of the orbit state: a rotate
\* step keeps target and distance; a pan step keeps yaw, pitch and distance; a
\* wheel or pinch step keeps target, yaw and pitch; press, release, leave,
\* touch start and touch end keep all four; reset() keeps target and drag mode.
C19_Frames ==
    [][/\ RotateStepTaken
            => cam'.target = cam.target /\ cam'.distance = cam.distance
       /\ (Delivered("mousemove") /\ cam.isPanning)
            => cam'.yaw = cam.yaw /\ cam'.pitch = cam.pitch
               /\ cam'.distance = cam.distance
       /\ (Delivered("wheel") \/ PinchStepTaken)
            => cam'.target = cam.target /\ cam'.yaw = cam.yaw
               /\ cam'.pitch = cam.pitch
       /\ (\/ Delivered("mousedown") \/ Delivered("mouseup")
           \/ Delivered("mouseleave")
           \/ Delivered("touchstart") \/ Delivered("touchend"))
            => Orbit(cam') = Orbit(cam)
       /\ Delivered("reset")
            => cam'.target = cam.target /\ Flags(cam') = Flags(cam)]_vars

\* C19 witness: reset() ran during a pan drag whose target had been moved, and
\* target and mode are as before
C19_Witness ==
    /\ ev.type = "reset" /\ cam.isPanning /\ cam.target # <<0, 0, 0>>
    /\ cam.yaw = 0 /\ cam.distance = 500

\* the extension of a file name: the text after its last dot, lower-cased;
\* a name without a dot has none
Extension(filename) ==
    IF \E i \in DOMAIN filename : filename[i] = "."
    THEN toLowerCase(SplitPop(filename))
    ELSE << >>

\* C16: a file-load request whose extension (case-insensitive) is none of ply,
\* sog, splat ends with an 'Unsupported file format' error, isLoading false and
\* no asset created: every asset has a supported extension, and right after a
\* request with another extension the error is shown and loading is off.
C16_OnlySupportedLoaded ==
    /\ \A k \in DOMAIN assets : Extension(assets[k].filename) \in SupportedFormats
    /\ (ev.type = "change" /\ appRef # 0 /\ Extension(ev.file) \notin SupportedFormats)
       => (error # null /\ error[1] = "Unsupported file format" /\ ~isLoading)

\* the loads started whose 'load' or 'error' callback has not fired yet
InFlight == { k \in DOMAIN assets : assets[k].state = "loading" }

\* C18: isLoading is true whenever at least one asset load is in flight.
C18_LoadingWhileInFlight == InFlight # {} => isLoading

\* the 'resize' listeners registered on the window
ResizeListeners ==
    { k \in DOMAIN windowListeners : windowListeners[k].type = "resize" }

\* C20: a window resize never calls resizeCanvas on a destroyed application,
\* and there is at most one resize listener per live application.
C20_ResizeListenerRemoved ==
    /\ [][ev'.type = "resize" =>
            \A i \in DOMAIN apps :
                apps[i].destroyed => apps'[i].resizeCalls = apps[i].resizeCalls]_vars
    /\ [](Cardinality(ResizeListeners)
            <= Cardinality({ i \in DOMAIN apps : ~apps[i].destroyed }))

====
